---- MODULE Spec2Model ----
(***************************************************************************)
(* rcwtool (utils/rcwtool.c): reads the 4-byte Reset Configuration Word    *)
(* of an S32G from an AT24C01 EEPROM behind an MCP2221 USB-to-I2C bridge,  *)
(* applies the boot policy for the requested boot medium and writes the    *)
(* word back.  The run of main() is modelled statement group by statement  *)
(* group; the bridge library and the EEPROM are the environment: every     *)
(* library call may succeed or fail, the EEPROM may or may not store what  *)
(* is written to it.                                                       *)
(*                                                                         *)
(* A 32-bit word is a function from bit number (0 = least significant) to  *)
(* 0/1, so that bit 31 (pll) is representable; bit-fields are allocated    *)
(* from bit 0 upwards in declaration order (little-endian ABI of GCC).     *)
(***************************************************************************)
EXTENDS Integers, Sequences, FiniteSets, TLC

VARIABLES
    pc,             \* position of main()
    optHelp,        \* argv holds -h / --help
    optAddr,        \* --addr: [given, text], text a sequence of characters
    optBoot,        \* --boot: [given, text], text a token
    eeprom_address, \* int eeprom_address
    boot_media,     \* boot_t boot_media
    count,          \* number of bridges mcp2221_find() reported
    dev,            \* mcp2221_t *dev: "NULL" or "handle"
    res,            \* mcp2221_error res
    state,          \* mcp2221_i2c_state_t state
    rcw,            \* rcw_t rcw (the 32 bits of the union)
    changed,        \* bool changed
    rbuf,           \* the bytes the last at24c01_read stored into rcw.data
    wbuf,           \* the bytes the last at24c01_write put on the bus
    mem,            \* EEPROM cells 0..3
    log,            \* the calls made into libmcp2221, in order
    out,            \* what print_rcw / printf("RCW: ...") wrote, in order
    exitCode        \* return value of main(), or Running

vars == <<pc, optHelp, optAddr, optBoot, eeprom_address, boot_media, count,
          dev, res, state, rcw, changed, rbuf, wbuf, mem, log, out, exitCode>>

(***************************************************************************)
(* Program constants                                                       *)
(***************************************************************************)
DEFAULT_EEPROM_ADDRESS == 80
MAX_I2C_ADDRESS == 127
MAX_BUFSZ == 60
WAIT_PERIOD_50MS == 7
RCON_SRC_I2C == 1
BOOT_QSPI == 0
BOOT_SD == 2
BOOT_MMC == 3

(***************************************************************************)
(* Bounds of the model                                                     *)
(***************************************************************************)
MaxDevices == 2
MaxPayload == 62

Running == "running"

(***************************************************************************)
(* 32-bit words and the bit-fields of rcw_t                                *)
(***************************************************************************)
Bits == 0..31

ZeroWord == [i \in Bits |-> 0]

RECURSIVE Field(_, _, _)
\* value of the n-bit field of w whose least significant bit is lo
Field(w, lo, n) == IF n = 0 THEN 0 ELSE w[lo] + 2 * Field(w, lo + 1, n - 1)

\* assignment to a bit-field: v is truncated to n bits, other bits are kept
SetField(w, lo, n, v) ==
    [i \in Bits |-> IF i >= lo /\ i < lo + n
                    THEN (v \div (2 ^ (i - lo))) % 2
                    ELSE w[i]]

rcon_phy(w)  == Field(w, 0, 2)
rcon_boot(w) == Field(w, 5, 3)
rcon_src(w)  == Field(w, 8, 1)
rcon_xosc(w) == Field(w, 15, 1)
rcon_pll(w)  == Field(w, 31, 1)
sd_wait(w)   == Field(w, 16, 3)
sd_speed(w)  == Field(w, 19, 1)

\* rcw.data filled from the bus, then boot_cfg = le32toh(boot_cfg)
le32toh(bytes) ==
    [i \in Bits |-> (bytes[(i \div 8) + 1] \div (2 ^ (i % 8))) % 2]

\* r.boot_cfg = htole32(r.boot_cfg), then r.data
htole32(w) == <<Field(w, 0, 8), Field(w, 8, 8), Field(w, 16, 8), Field(w, 24, 8)>>

(***************************************************************************)
(* Reporting                                                               *)
(***************************************************************************)
\* the 50 ms case forgotten: code 7 falls through to the default
wait_period_to_ms_no50(p) ==
    CASE p = 1 -> 5
      [] p = 2 -> 10
      [] p = 3 -> 20
      [] p = 4 -> 35
      [] OTHER -> 0

wait_period_to_ms(p) ==
    CASE p = 1 -> 5
      [] p = 2 -> 10
      [] p = 3 -> 20
      [] p = 4 -> 35
      [] p = WAIT_PERIOD_50MS -> 50
      [] OTHER -> 0

boot_to_str(boot) ==
    CASE boot = 0 -> "QSPI"
      [] boot = 2 -> "SD"
      [] boot = 3 -> "MMC"
      [] OTHER -> "?"

src_to_str(src) ==
    CASE src = 0 -> "parallel"
      [] src = RCON_SRC_I2C -> "I2C"
      [] OTHER -> "?"

\* what print_rcw writes; the WAIT and SPEED lines exist for boot == SD only
print_rcw(w) ==
    [raw   |-> w,
     boot  |-> boot_to_str(rcon_boot(w)),
     src   |-> src_to_str(rcon_src(w)),
     wait  |-> IF rcon_boot(w) = BOOT_SD
               THEN wait_period_to_ms(sd_wait(w)) ELSE -1,
     speed |-> IF rcon_boot(w) = BOOT_SD
               THEN (IF sd_speed(w) # 0 THEN "high" ELSE "default") ELSE "-"]

(***************************************************************************)
(* Command line                                                            *)
(***************************************************************************)
HexVal == [c \in {"0", "5", "7", "8", "f"} |->
             CASE c = "0" -> 0 [] c = "5" -> 5 [] c = "7" -> 7
               [] c = "8" -> 8 [] c = "f" -> 15]

RECURSIVE HexPrefix(_, _)
\* <<number of leading hex digits of s, their value>>, continuing from acc
HexPrefix(s, acc) ==
    IF s # <<>> /\ s[1] \in DOMAIN HexVal
    THEN LET r == HexPrefix(Tail(s), 16 * acc + HexVal[s[1]])
         IN  <<r[1] + 1, r[2]>>
    ELSE <<0, acc>>

\* sscanf(optarg, "%x", &eeprom_address): an optional sign, then hex digits
\* up to the first other character; without a digit nothing is stored
sscanf_x(s, old) ==
    LET neg  == s # <<>> /\ s[1] = "-"
        body == IF neg THEN Tail(s) ELSE s
        r    == HexPrefix(body, 0)
    IN  IF r[1] = 0 THEN old
        ELSE IF neg THEN 0 - r[2] ELSE r[2]

\* the strcmp chain of --boot: an unmatched token assigns nothing
parse_boot(tok, old) ==
    IF tok = "qspi" THEN BOOT_QSPI
    ELSE IF tok = "sd" THEN BOOT_SD
    ELSE IF tok = "mmc" THEN BOOT_MMC
    ELSE old

AddrArgs == {<<"5", "0">>, <<"7", "f">>, <<"8", "0">>, <<"0">>,
             <<"z", "z">>, <<"5", "z">>, <<"-", "5">>, <<>>}
BootArgs == {"qspi", "sd", "mmc", "nand"}

\* an option of argv: absent, or given with one of the arguments
Options(args, none) ==
    {[given |-> FALSE, text |-> none]} \cup {[given |-> TRUE, text |-> a] : a \in args}

(***************************************************************************)
(* Boot policy (main, after the first read)                                *)
(***************************************************************************)
PolicySrc(s) ==
    IF rcon_src(s.rcw) # RCON_SRC_I2C
    THEN [rcw |-> SetField(s.rcw, 8, 1, RCON_SRC_I2C), changed |-> TRUE]
    ELSE s

\* the clearing moved out of the if: the word is rebuilt on every run
PolicyBootAlwaysClear(s, target) ==
    [rcw |-> SetField(ZeroWord, 5, 3, target), changed |-> TRUE]

PolicyBoot(s, target) ==
    IF rcon_boot(s.rcw) # target
    THEN [rcw |-> SetField(ZeroWord, 5, 3, target), changed |-> TRUE]
    ELSE s

PolicySdSpeed(s) ==
    IF sd_speed(s.rcw) = 0
    THEN [rcw |-> SetField(s.rcw, 19, 1, 1), changed |-> TRUE]
    ELSE s

PolicySdWait(s) ==
    IF sd_wait(s.rcw) # WAIT_PERIOD_50MS
    THEN [rcw |-> SetField(s.rcw, 16, 3, WAIT_PERIOD_50MS), changed |-> TRUE]
    ELSE s

\* the wait check hung on an else: only one SD default is applied per run
PolicySdElseIf(s) ==
    IF rcon_boot(s.rcw) = BOOT_SD
    THEN (IF sd_speed(s.rcw) = 0 THEN PolicySdSpeed(s) ELSE PolicySdWait(s))
    ELSE s

PolicySd(s) ==
    IF rcon_boot(s.rcw) = BOOT_SD THEN PolicySdWait(PolicySdSpeed(s)) ELSE s

Plan(w, target, c0) ==
    PolicySd(PolicyBoot(PolicySrc([rcw |-> w, changed |-> c0]), target))

(***************************************************************************)
(* EEPROM contents the runs start from                                     *)
(***************************************************************************)
\* byte 0: phy, boot      byte 1: src, xosc
\* byte 2: wait, speed    byte 3: pll
Seed0 == {0, 28, 32, 64, 95, 96}
Seed1 == {0, 1, 254}
Seed2 == {0, 15, 7, 8, 245}
Seed3 == {0, 128}
EepromSeeds == {<<a, b, c, d>> : a \in Seed0, b \in Seed1, c \in Seed2, d \in Seed3}

(***************************************************************************)
(* The run of main()                                                       *)
(***************************************************************************)
argv == <<optHelp, optAddr, optBoot>>

Init ==
    /\ pc = "args"
    /\ optHelp \in BOOLEAN
    /\ optAddr \in Options(AddrArgs, <<>>)
    /\ optBoot \in Options(BootArgs, "")
    /\ eeprom_address = DEFAULT_EEPROM_ADDRESS
    /\ boot_media = BOOT_SD
    /\ count = 0
    /\ dev = "NULL"
    /\ res = "SUCCESS"
    /\ state = "IDLE"
    /\ rcw = ZeroWord
    /\ changed = FALSE
    /\ rbuf = <<>>
    /\ wbuf = <<>>
    /\ mem \in EepromSeeds
    /\ log = <<>>
    /\ out = <<>>
    /\ exitCode = Running

\* an error path that returns without releasing the library
McpExitLeak(l) == l

\* mcp2221_exit()
McpExit(l) == Append(l, "exit")

\* return <code>; from main
Return(code) ==
    /\ pc' = "done"
    /\ exitCode' = code

\* the result code of a library call
Result(ok) == IF ok THEN "SUCCESS" ELSE "ERROR"

\* the getopt_long loop
ParseArgs ==
    /\ pc = "args"
    /\ IF optHelp
       THEN /\ Return(0)
            /\ UNCHANGED <<eeprom_address, boot_media>>
       ELSE /\ eeprom_address' = IF optAddr.given
                                 THEN sscanf_x(optAddr.text, eeprom_address)
                                 ELSE eeprom_address
            /\ boot_media' = IF optBoot.given
                             THEN parse_boot(optBoot.text, boot_media)
                             ELSE boot_media
            /\ pc' = "check_addr"
            /\ UNCHANGED exitCode
    /\ UNCHANGED <<argv, count, dev, res, state, rcw, changed, rbuf, wbuf,
                   mem, log, out>>

\* if (eeprom_address < 0 || eeprom_address > 0x7f) return -1;
CheckAddr ==
    /\ pc = "check_addr"
    /\ IF eeprom_address < 0 \/ eeprom_address > MAX_I2C_ADDRESS
       THEN Return(-1)
       ELSE pc' = "init" /\ UNCHANGED exitCode
    /\ UNCHANGED <<argv, eeprom_address, boot_media, count, dev, res, state,
                   rcw, changed, rbuf, wbuf, mem, log, out>>

\* mcp2221_init();
McpInit ==
    /\ pc = "init"
    /\ log' = Append(log, "init")
    /\ pc' = "find"
    /\ UNCHANGED <<argv, eeprom_address, boot_media, count, dev, res, state,
                   rcw, changed, rbuf, wbuf, mem, out, exitCode>>

\* count = mcp2221_find(...); if (count == 0) { mcp2221_exit(); return -1; }
McpFind ==
    /\ pc = "find"
    /\ \E n \in 0..MaxDevices :
         /\ count' = n
         /\ IF n = 0
            THEN /\ log' = McpExit(Append(log, "find"))
                 /\ Return(-1)
            ELSE /\ log' = Append(log, "find")
                 /\ pc' = "open"
                 /\ UNCHANGED exitCode
    /\ UNCHANGED <<argv, eeprom_address, boot_media, dev, res, state, rcw,
                   changed, rbuf, wbuf, mem, out>>

\* one bridge: mcp2221_open(); several: ask for an index, range-check it,
\* mcp2221_open_byIndex(num); then if (!dev) fail
McpOpen ==
    /\ pc = "open"
    /\ \E num \in -1..count, h \in {"NULL", "handle"} :
         IF count # 1 /\ (num < 0 \/ num >= count)
         THEN /\ log' = McpExit(log)
              /\ Return(-1)
              /\ UNCHANGED dev
         ELSE /\ dev' = h
              /\ IF h = "NULL"
                 THEN /\ log' = McpExit(Append(log, "open"))
                      /\ Return(-1)
                 ELSE /\ log' = Append(log, "open")
                      /\ pc' = "state"
                      /\ UNCHANGED exitCode
    /\ UNCHANGED <<argv, eeprom_address, boot_media, count, res, state, rcw,
                   changed, rbuf, wbuf, mem, out>>

\* the bus-state check with the cancel left out
I2cStateNoCancel ==
    /\ pc = "state"
    /\ \E ok \in BOOLEAN, st \in {"IDLE", "BUSY"} :
         /\ res' = Result(ok)
         /\ IF ~ok
            THEN /\ log' = McpExit(Append(log, "state"))
                 /\ Return(-1)
                 /\ UNCHANGED state
            ELSE /\ state' = st
                 /\ log' = Append(log, "state")
                 /\ pc' = "divider"
                 /\ UNCHANGED exitCode
    /\ UNCHANGED <<argv, eeprom_address, boot_media, count, dev, rcw,
                   changed, rbuf, wbuf, mem, out>>

\* res = mcp2221_i2cState(dev, &state); a bus that is not idle is cancelled
I2cState ==
    /\ pc = "state"
    /\ \E ok \in BOOLEAN, st \in {"IDLE", "BUSY"} :
         /\ res' = Result(ok)
         /\ IF ~ok
            THEN /\ log' = McpExit(Append(log, "state"))
                 /\ Return(-1)
                 /\ UNCHANGED state
            ELSE /\ state' = st
                 /\ log' = IF st # "IDLE"
                           THEN Append(Append(log, "state"), "cancel")
                           ELSE Append(log, "state")
                 /\ pc' = "divider"
                 /\ UNCHANGED exitCode
    /\ UNCHANGED <<argv, eeprom_address, boot_media, count, dev, rcw,
                   changed, rbuf, wbuf, mem, out>>

\* res = mcp2221_i2cDivider(dev, 27);
I2cDivider ==
    /\ pc = "divider"
    /\ \E ok \in BOOLEAN :
         /\ res' = Result(ok)
         /\ IF ~ok
            THEN /\ log' = McpExit(Append(log, "divider"))
                 /\ Return(-1)
            ELSE /\ log' = Append(log, "divider")
                 /\ pc' = "read"
                 /\ UNCHANGED exitCode
    /\ UNCHANGED <<argv, eeprom_address, boot_media, count, dev, state, rcw,
                   changed, rbuf, wbuf, mem, out>>

\* at24c01_read(dev, address, 0, rcw->data, 4): the offset byte is written,
\* four bytes are read back
at24c01_read(cells) == cells

\* at24c01_write: wbuf[0] = offset; memcpy(&wbuf[1], w_buf, w_len); the
\* frame of w_len + 1 bytes is handed to the bridge.  wbuf has
\* MAX_BUFSZ + 1 elements: a longer frame has been stored past its end.
at24c01_write(offset, w_buf) == <<offset>> \o w_buf

\* s32g_rcw_read and, on success, the two prints; next is the position after
s32g_rcw_read(next) ==
    \E ok \in BOOLEAN :
       /\ res' = Result(ok)
       /\ IF ~ok
          THEN /\ log' = McpExit(Append(log, "read"))
               /\ Return(-1)
               /\ UNCHANGED <<rbuf, rcw, out>>
          ELSE /\ log' = Append(log, "read")
               /\ rbuf' = at24c01_read(mem)
               /\ rcw' = le32toh(at24c01_read(mem))
               /\ out' = Append(out, print_rcw(le32toh(at24c01_read(mem))))
               /\ pc' = next
               /\ UNCHANGED exitCode

\* res = s32g_rcw_read(dev, eeprom_address, &rcw); print
RcwRead ==
    /\ pc = "read"
    /\ s32g_rcw_read("policy")
    /\ UNCHANGED <<argv, eeprom_address, boot_media, count, dev, state,
                   changed, wbuf, mem>>

\* the three policy steps.  bool changed; has no initialiser, so where no
\* step assigns it, it holds whatever value c0 its storage happened to hold
Policy ==
    /\ pc = "policy"
    /\ \E c0 \in BOOLEAN :
         LET p == Plan(rcw, boot_media, c0)
         IN  /\ rcw' = p.rcw
             /\ changed' = p.changed
    /\ pc' = "write"
    /\ UNCHANGED <<argv, eeprom_address, boot_media, count, dev, res, state,
                   rbuf, wbuf, mem, log, out, exitCode>>

\* if (changed) { res = s32g_rcw_write(dev, eeprom_address, &rcw); ...
\* a write the bridge reports as successful is stored by the EEPROM, or not
RcwWrite ==
    /\ pc = "write"
    /\ IF ~changed
       THEN /\ pc' = "finish"
            /\ UNCHANGED <<res, wbuf, mem, log, exitCode>>
       ELSE /\ wbuf' = at24c01_write(0, htole32(rcw))
            /\ \E ok \in BOOLEAN :
                 /\ res' = Result(ok)
                 /\ IF ~ok
                    THEN /\ log' = McpExit(Append(log, "write"))
                         /\ Return(-1)
                         /\ UNCHANGED mem
                    ELSE /\ log' = Append(log, "write")
                         /\ mem' \in {htole32(rcw), mem}
                         /\ pc' = "verify"
                         /\ UNCHANGED exitCode
    /\ UNCHANGED <<argv, eeprom_address, boot_media, count, dev, state, rcw,
                   changed, rbuf, out>>

\* ... res = s32g_rcw_read(dev, eeprom_address, &rcw); print }
RcwVerify ==
    /\ pc = "verify"
    /\ s32g_rcw_read("finish")
    /\ UNCHANGED <<argv, eeprom_address, boot_media, count, dev, state,
                   changed, wbuf, mem>>

\* mcp2221_exit(); return 0;
Finish ==
    /\ pc = "finish"
    /\ log' = McpExit(log)
    /\ Return(0)
    /\ UNCHANGED <<argv, eeprom_address, boot_media, count, dev, res, state,
                   rcw, changed, rbuf, wbuf, mem, out>>

Next ==
    \/ ParseArgs
    \/ CheckAddr
    \/ McpInit
    \/ McpFind
    \/ McpOpen
    \/ I2cState
    \/ I2cDivider
    \/ RcwRead
    \/ Policy
    \/ RcwWrite
    \/ RcwVerify
    \/ Finish

Spec == Init /\ [][Next]_vars

(***************************************************************************)
(* at24c01_write on its own, for payloads of every length                  *)
(***************************************************************************)
InitWrite ==
    /\ pc = "at24c01_write"
    /\ optHelp = FALSE
    /\ optAddr = [given |-> FALSE, text |-> <<>>]
    /\ optBoot = [given |-> FALSE, text |-> ""]
    /\ eeprom_address = DEFAULT_EEPROM_ADDRESS
    /\ boot_media = BOOT_SD
    /\ count = 1
    /\ dev = "handle"
    /\ res = "SUCCESS"
    /\ state = "IDLE"
    /\ rcw = ZeroWord
    /\ changed = FALSE
    /\ \E n \in 0..MaxPayload, fill \in {0, 255} : rbuf = [i \in 1..n |-> fill]
    /\ wbuf = <<>>
    /\ mem = <<0, 0, 0, 0>>
    /\ log = <<>>
    /\ out = <<>>
    /\ exitCode = Running

\* res = at24c01_write(dev, address, 0, w_buf, w_len), w_buf held in rbuf.
\* Storing past the end of wbuf is undefined: the call may go on to the
\* bridge with the frame, or the process may be killed.
At24c01Write ==
    /\ pc = "at24c01_write"
    /\ wbuf' = at24c01_write(0, rbuf)
    /\ \/ /\ \E ok \in BOOLEAN : res' = Result(ok)
          /\ log' = Append(log, "write")
          /\ pc' = "returned"
       \/ /\ Len(rbuf) > MAX_BUFSZ
          /\ pc' = "killed"
          /\ UNCHANGED <<res, log>>
    /\ UNCHANGED <<argv, eeprom_address, boot_media, count, dev, state, rcw,
                   changed, rbuf, mem, out, exitCode>>

SpecWrite == InitWrite /\ [][At24c01Write]_vars

(***************************************************************************)
(* print_rcw on its own: every SD wait code, applied to a word at rest     *)
(***************************************************************************)
PrintSeeds == {<<a, b, c, 0>> : a \in {0, 64, 95, 96}, b \in {0, 1}, c \in 0..15}

InitPrint ==
    /\ pc = "print"
    /\ optHelp = FALSE
    /\ optAddr = [given |-> FALSE, text |-> <<>>]
    /\ optBoot = [given |-> FALSE, text |-> ""]
    /\ eeprom_address = DEFAULT_EEPROM_ADDRESS
    /\ boot_media = BOOT_SD
    /\ count = 0
    /\ dev = "NULL"
    /\ res = "SUCCESS"
    /\ state = "IDLE"
    /\ \E b \in PrintSeeds : rcw = le32toh(b)
    /\ changed = FALSE
    /\ rbuf = <<>>
    /\ wbuf = <<>>
    /\ mem = <<0, 0, 0, 0>>
    /\ log = <<>>
    /\ out = <<>>
    /\ exitCode = Running

PrintRcw ==
    /\ pc = "print"
    /\ out' = Append(out, print_rcw(rcw))
    /\ pc' = "printed"
    /\ UNCHANGED <<argv, eeprom_address, boot_media, count, dev, res, state,
                   rcw, changed, rbuf, wbuf, mem, log, exitCode>>

SpecPrint == InitPrint /\ [][PrintRcw]_vars

(***************************************************************************)
(* Properties                                                              *)
(***************************************************************************)
InLog(op) == \E i \in DOMAIN log : log[i] = op

\* the policy has run: the first read printed, and main is past line 384
AfterPolicy == Len(out) >= 1 /\ pc # "policy"

\* the word as first read from the EEPROM (printed at line 359)
FirstWord == out[1].raw

\* the four payload bytes of the last write
Payload == SubSeq(wbuf, 2, Len(wbuf))

\* C1: whatever word was read and whatever the target, the word the policy
\* produces has src = I2C and boot = target; a QSPI word switched to SD
\* carries nothing else but the SD defaults.
C1_PolicyForcesI2cAndTarget ==
    pc = "write" =>
        /\ rcon_src(rcw) = RCON_SRC_I2C
        /\ rcon_boot(rcw) = boot_media
        /\ (rcon_boot(FirstWord) = BOOT_QSPI /\ boot_media = BOOT_SD
              => \A i \in Bits \ {5, 6, 7, 8, 16, 17, 18, 19} : rcw[i] = 0)

Compliant(w, target) ==
    /\ rcon_src(w) = RCON_SRC_I2C
    /\ rcon_boot(w) = target
    /\ (target = BOOT_SD => sd_speed(w) = 1 /\ sd_wait(w) = WAIT_PERIOD_50MS)

\* C2: a word that already complies with the target gives changed = false
\* and the run writes nothing; changed is true only if a policy step
\* modified the word.
C2_CompliantWordIsNotWritten ==
    /\ (AfterPolicy /\ Compliant(FirstWord, boot_media)
           => changed = FALSE /\ ~InLog("write"))
    /\ (pc = "write" /\ changed => rcw # FirstWord)

\* C3: a run whose write succeeded and whose re-read returned bytes other
\* than the ones written never ends in success.
C3_MismatchIsIntegrityFailure ==
    (Len(out) = 2 /\ rbuf # Payload) => (pc = "done" => exitCode # 0)

\* C4: an SD word read with speed = 0 or wait # 7, target SD: changed is
\* true, the write carries offset 0 and the little-endian bytes of a word
\* with src = 1, boot = 2, speed = 1, wait = 7, and when the EEPROM holds
\* what was written the verification read returns exactly those bytes.
C4_SdDefaultsWritten ==
    (/\ AfterPolicy
     /\ boot_media = BOOT_SD
     /\ rcon_boot(FirstWord) = BOOT_SD
     /\ (sd_speed(FirstWord) = 0 \/ sd_wait(FirstWord) # WAIT_PERIOD_50MS))
    => /\ changed = TRUE
       /\ (pc # "write" =>
             /\ InLog("write")
             /\ Len(wbuf) = 5
             /\ wbuf[1] = 0
             /\ Payload[1] \div 32 = BOOT_SD
             /\ Payload[2] % 2 = RCON_SRC_I2C
             /\ Payload[3] % 16 = 15)
       /\ (Len(out) = 2 /\ mem = Payload => rbuf = Payload)

\* bytes 40 00 00 00 targeted at sd: 40 01 0f 00 is written at offset 0,
\* stored, read back, and the run succeeds
C4_Witness ==
    /\ pc = "done"
    /\ exitCode = 0
    /\ boot_media = BOOT_SD
    /\ Len(out) = 2
    /\ htole32(FirstWord) = <<64, 0, 0, 0>>
    /\ changed
    /\ wbuf = <<0, 64, 1, 15, 0>>
    /\ rbuf = <<64, 1, 15, 0>>

WellFormedHex(s) == s # <<>> /\ \A i \in DOMAIN s : s[i] \in DOMAIN HexVal

ArgsBad ==
    \/ /\ optAddr.given
       /\ \/ ~WellFormedHex(optAddr.text)
          \/ HexPrefix(optAddr.text, 0)[2] > MAX_I2C_ADDRESS
    \/ /\ optBoot.given
       /\ optBoot.text \notin {"qspi", "sd", "mmc"}

\* C5: a run given a malformed or out-of-range address, or a boot token
\* other than qspi, sd, mmc, fails without a single call into the bridge
\* library.
C5_BadArgsTouchNoDevice ==
    (ArgsBad /\ ~optHelp) => /\ log = <<>>
                             /\ (pc = "done" => exitCode = -1)

WaitTable == <<0, 5, 10, 20, 35, 0, 0, 50>>

C7_TransportReleasedOnExit ==
    /\ (pc = "done" /\ InLog("init") => log[Len(log)] = "exit")
    /\ \A i \in DOMAIN log : log[i] = "exit" => i = Len(log) /\ pc = "done"

\* the longest failing path: the verification read fails after a write
C7_Witness ==
    /\ pc = "done"
    /\ exitCode = -1
    /\ log = <<"init", "find", "open", "state", "cancel", "divider",
               "read", "write", "read", "exit">>

\* the last call into the library other than the cancel and the release
LastCall ==
    LET calls == SelectSeq(log, LAMBDA c : c \notin {"cancel", "exit"})
    IN  IF calls = <<>> THEN "" ELSE calls[Len(calls)]

\* C8: the bus-state query comes before the divider configuration and before
\* every EEPROM read and write; a bus found not idle is cancelled before the
\* divider configuration and the first read; after a failed query main
\* returns and no divider configuration, read or write is issued.
C8_StateQueryFirst ==
    /\ \A i \in DOMAIN log :
         log[i] \in {"divider", "read", "write"}
            => \E j \in 1..(i - 1) : log[j] = "state"
    /\ \A i \in DOMAIN log :
         (log[i] \in {"divider", "read"} /\ state # "IDLE")
            => \E j \in 1..(i - 1) :
                  /\ log[j] = "cancel"
                  /\ \E k \in 1..(j - 1) : log[k] = "state"
    /\ (LastCall = "state" /\ res = "ERROR")
          => /\ pc = "done"
             /\ exitCode = -1
             /\ \A i \in DOMAIN log : log[i] \notin {"divider", "read", "write"}

\* a busy bus was cancelled, then configured, read and written
C8_Witness ==
    /\ state = "BUSY"
    /\ InLog("write")
    /\ SubSeq(log, 4, 8) = <<"state", "cancel", "divider", "read", "write">>

Touched(target) == {8} \cup (IF target = BOOT_SD THEN 16..19 ELSE {})

\* w against the word first read: untouched outside Touched when boot was
\* the target, zero outside boot and the SD defaults otherwise
Framed(w) ==
    IF rcon_boot(FirstWord) = boot_media
    THEN \A i \in Bits \ Touched(boot_media) : w[i] = FirstWord[i]
    ELSE \A i \in Bits \ ({5, 6, 7} \cup (Touched(boot_media) \ {8})) : w[i] = 0

\* C10: when the word read already has boot = target, the word produced and
\* written differs from it at most in src and, for target SD, in speed and
\* wait; the other bits are cleared only when boot differs from the target.
C10_PolicyFrame ==
    /\ (Len(out) = 1 /\ pc # "policy" => Framed(rcw))
    /\ (AfterPolicy /\ InLog("write")
           => Len(Payload) = 4 /\ Framed(le32toh(Payload)))

\* a word with phy, reserved bits, xosc and pll set keeps them through a
\* policy run that changes it, and is written
C10_Witness ==
    /\ pc = "verify"
    /\ rcon_boot(FirstWord) = boot_media
    /\ rcon_pll(FirstWord) = 1
    /\ rcon_phy(FirstWord) = 3
    /\ rcon_xosc(FirstWord) = 1
    /\ rcw # FirstWord
    /\ rcon_pll(rcw) = 1
    /\ rcon_phy(rcw) = 3
    /\ Payload = htole32(rcw)

====
